---- MODULE Spec2Model ----
(***************************************************************************)
(* Expense-tracking API (app/views.py, app/models.py).                     *)
(*                                                                         *)
(* Users and categories live in ORM tables (User, Category); the handlers  *)
(* also keep module-level dictionaries users, categories, records and the  *)
(* counter next_record_id.  Records exist only in the dictionary.          *)
(*                                                                         *)
(* Every handler is an operator from (store, request) to (response, store) *)
(* translated from its code, and an action that applies it.                *)
(*                                                                         *)
(* Spec     : every handler runs as one step (non-overlapping requests).   *)
(* SpecConc : delete_user / delete_category run statement by statement on  *)
(*            worker threads, interleaved with the other handlers.         *)
(* SpecRace : create_record runs statement by statement as well, next to   *)
(*            the deletes; every worker serves one request.                *)
(***************************************************************************)
EXTENDS Integers, Sequences, FiniteSets, TLC

\* ---------------------------------------------------------------- bounds
\* largest id the database sequences hand out for users and for categories
MaxId == 2
\* largest id create_record hands out
MaxRecordId == 2
\* largest user id and category id in SpecConc
ConcMaxId == 1

\* ---------------------------------------------------------------- values
\* Python's None as the result of request.args.get(..., type=int)
None == 0 - 1

UserNames == {"Al", "Bo"}
CategoryNames == {"Food", "Fun"}
\* "name" as it may arrive in a POST body, when the key is there
UserNameInputs == UserNames \cup {""}
\* the names in the POST /user requests of Spec: no handler looks into the
\* name of a user, so the users that are stored all have one name (the
\* properties apply create_user to every name of UserNameInputs)
UserRequestNames == {"Al", ""}
CategoryNameInputs == CategoryNames \cup {""}

\* ids a client may put in a path or a JSON body (one more than can exist)
IdInputs == 1..(MaxId + 1)
RecordIdInputs == 1..(MaxRecordId + 1)

\* "amount" as it may arrive in a POST /record body ("null": JSON null)
AmountInputs == {"12.50", "abc", "null"}
\* "created_at" as it may arrive in a POST /record body
CreatedAtInputs == {"", "2024-01-01T00:00:00"}
\* datetime.now(timezone.utc).isoformat()
UtcNow == "<utcnow>"

\* a query-string argument: absent, or present with its raw text
Absent == [present |-> FALSE, text |-> <<>>]
Arg(t) == [present |-> TRUE, text |-> t]
DigitChars == <<"0", "1", "2", "3", "4", "5", "6", "7", "8", "9">>
IdText(i) == <<DigitChars[i + 1]>>
ArgInputs ==
    {Absent, Arg(<<"x">>)} \cup {Arg(IdText(i)) : i \in IdInputs}

VARIABLES
    userTable,       \* table "users": id -> row
    categoryTable,   \* table "categories": id -> row
    userSeq,         \* next id the database gives a user row
    categorySeq,     \* next id the database gives a category row
    users,           \* views.users
    categories,      \* views.categories
    records,         \* views.records
    next_record_id,  \* views.next_record_id
    hist,            \* history: ids handed out and ids removed
    pc,              \* SpecConc: position of each worker thread
    loc,             \* SpecConc: locals of each worker thread
    obs              \* SpecConc: what the reading client has observed

store == <<userTable, categoryTable, userSeq, categorySeq,
           users, categories, records, next_record_id>>
threads == <<pc, loc, obs>>
vars == <<userTable, categoryTable, userSeq, categorySeq,
          users, categories, records, next_record_id, hist, pc, loc, obs>>

\* the tables, the dictionaries and the counter as one value
Store ==
    [userTable |-> userTable, categoryTable |-> categoryTable,
     userSeq |-> userSeq, categorySeq |-> categorySeq,
     users |-> users, categories |-> categories,
     records |-> records, next_record_id |-> next_record_id]

\* ---------------------------------------------------------------- maps
EmptyMap == [k \in {} |-> 0]
Put(m, k, v) == [x \in (DOMAIN m) \cup {k} |-> IF x = k THEN v ELSE m[x]]
Pop(m, k) == [x \in (DOMAIN m) \ {k} |-> m[x]]
Min(S) == CHOOSE x \in S : \A y \in S : x <= y

\* the values of a dictionary in key order (for these dictionaries, whose keys
\* only grow, that is insertion order)
RECURSIVE Values(_)
Values(m) ==
    IF DOMAIN m = {} THEN <<>>
    ELSE LET k == Min(DOMAIN m) IN <<m[k]>> \o Values(Pop(m, k))

\* the keys of a dictionary in iteration order
Keys(m) == [i \in 1..Len(Values(m)) |-> Values(m)[i].id]

\* ---------------------------------------------------------------- requests
\* A JSON body: its keys with their values.  A key that is absent has the
\* default value of its field here, and no handler reads it.
EmptyBody ==
    [keys |-> {}, name |-> "", user_id |-> None, category_id |-> None,
     amount |-> "", created_at |-> ""]

NameBody(n) == [EmptyBody EXCEPT !.keys = {"name"}, !.name = n]
NameBodies(names) == {EmptyBody} \cup {NameBody(n) : n \in names}

\* POST /record bodies: the bodies that have the three required keys (with an
\* amount that is a number, with one that is none, with created_at), and
\* bodies that lack some of the keys
FullRecordBodies ==
    {[EmptyBody EXCEPT !.keys = {"user_id", "category_id", "amount"},
                       !.user_id = u, !.category_id = c, !.amount = "12.50"] :
        u \in IdInputs, c \in IdInputs}
    \cup
    {[EmptyBody EXCEPT !.keys = {"user_id", "category_id", "amount"},
                       !.user_id = uc[1], !.category_id = uc[2], !.amount = a] :
        uc \in {<<1, 1>>, <<MaxId + 1, 1>>, <<1, MaxId + 1>>},
        a \in AmountInputs \ {"12.50"}}
    \cup
    {[EmptyBody EXCEPT !.keys = {"user_id", "category_id", "amount", "created_at"},
                       !.user_id = 1, !.category_id = 1, !.amount = "12.50",
                       !.created_at = t] : t \in CreatedAtInputs}

PartialRecordBodies ==
    {[EmptyBody EXCEPT !.keys = ks,
                       !.user_id = IF "user_id" \in ks THEN u ELSE None,
                       !.category_id = IF "category_id" \in ks THEN 1 ELSE None,
                       !.amount = IF "amount" \in ks THEN "12.50" ELSE ""] :
        ks \in (SUBSET {"user_id", "category_id", "amount"})
                   \ {{"user_id", "category_id", "amount"}},
        u \in {1, MaxId + 1}}

RecordBodies == FullRecordBodies \cup PartialRecordBodies

\* ---------------------------------------------------------------- responses
Response(status, error, body) ==
    [status |-> status, error |-> error, body |-> body]

error_response(message, status_code) == Response(status_code, message, <<>>)

Deleted == <<[status |-> "deleted"]>>

\* what a handler leaves: its response and the store after it
Result(response, st) == [response |-> response, store |-> st]

user_to_dict(user) == [id |-> user.id, name |-> user.name]

category_to_dict(category) == [id |-> category.id, name |-> category.name]

\* [user_to_dict(u) for u in all_users]
UsersToDicts(rows) == [i \in 1..Len(rows) |-> user_to_dict(rows[i])]

\* [category_to_dict(c) for c in all_categories]
CategoriesToDicts(rows) == [i \in 1..Len(rows) |-> category_to_dict(rows[i])]

\* ---------------------------------------------------------------- conversions
IsDigit(c) == \E d \in 1..Len(DigitChars) : DigitChars[d] = c
DigitValue(c) == (CHOOSE d \in 1..Len(DigitChars) : DigitChars[d] = c) - 1

RECURSIVE IntOf(_)
IntOf(t) ==
    IF t = <<>> THEN 0
    ELSE IntOf(SubSeq(t, 1, Len(t) - 1)) * Len(DigitChars) + DigitValue(t[Len(t)])

\* request.args.get(key, type=int): the default None when the key is absent
\* and also when int(text) raises ValueError
ArgsGetInt(a) ==
    IF ~a.present THEN None
    ELSE IF a.text # <<>> /\ \A i \in 1..Len(a.text) : IsDigit(a.text[i])
         THEN IntOf(a.text)
         ELSE None

\* a conversion that takes any text for a number
FloatLenient(amount) == IF amount = "12.50" THEN <<1250>> ELSE <<0>>

\* float(data["amount"]) in hundredths: <<v>>, or <<>> when it raises
\* ValueError (text that is no number) or TypeError (JSON null)
Float(amount) ==
    CASE amount = "12.50" -> <<1250>>
      [] amount = "7" -> <<700>>
      [] OTHER -> <<>>

\* ---------------------------------------------------------------- database
\* Model.query.get(id): <<row>>, or <<>> for None
QueryGet(table, id) == IF id \in DOMAIN table THEN <<table[id]>> ELSE <<>>

\* Model.query.order_by(Model.id.asc()).all()
QueryAll(table) == Values(table)

\* the row is marked deleted and the commit is forgotten
DbDeleteUncommitted(table, id) == table

\* db.session.delete(row); db.session.commit()
DbDelete(table, id) == Pop(table, id)

\* the primary key the database gives the next inserted row: a sequence that
\* only moves forward (section 3 of the specification: "system-assigned,
\* monotonic", "never reused"); the database itself is configured outside
\* views.py and models.py
DbNewId(seq) == seq

\* the column without unique=True
UniqueViolationNever(table, name) == FALSE

\* Category.name is unique=True: the commit of a second row with the name raises
UniqueViolation(table, name) == \E id \in DOMAIN table : table[id].name = name

\* ---------------------------------------------------------------- create_record
\* missing = [f for f in required_fields if f not in data]
MissingFields(data) ==
    SelectSeq(<<"user_id", "category_id", "amount">>, LAMBDA f : f \notin data.keys)

\* the membership test left out
UserUnknownSkipped(dict, user_id) == FALSE

\* user_id not in users
UserUnknown(dict, user_id) == user_id \notin DOMAIN dict

\* the membership test left out
CategoryUnknownSkipped(dict, category_id) == FALSE

\* category_id not in categories
CategoryUnknown(dict, category_id) == category_id \notin DOMAIN dict

\* created_at = data.get("created_at"); if not created_at: created_at = now
CreatedAt(data) ==
    IF "created_at" \in data.keys /\ data.created_at # ""
    THEN data.created_at
    ELSE UtcNow

\* the increment left out
IncrementRecordIdStuck(n) == n

\* next_record_id += 1
IncrementRecordId(n) == n + 1

\* ---------------------------------------------------------------- deletes
\* a delete that forgets the user's records
UserRecordIdsNone(recs, user_id) == <<>>

\* to_delete = [rid for rid, rec in records.items() if rec["user_id"] == user_id]
UserRecordIds(recs, user_id) ==
    SelectSeq(Keys(recs), LAMBDA rid : recs[rid].user_id = user_id)

\* to_delete = [rid for rid, rec in records.items() if rec["category_id"] == category_id]
CategoryRecordIds(recs, category_id) ==
    SelectSeq(Keys(recs), LAMBDA rid : recs[rid].category_id = category_id)

\* a loop that empties the dictionary
DeleteAllCleared(recs, to_delete) == EmptyMap

\* for rid in to_delete: del records[rid]
RECURSIVE DeleteAll(_, _)
DeleteAll(recs, to_delete) ==
    IF to_delete = <<>> THEN recs
    ELSE DeleteAll(Pop(recs, Head(to_delete)), Tail(to_delete))

\* the del left out
DeleteOneKept(recs, record_id) == recs

\* del records[record_id]
DeleteOne(recs, record_id) == Pop(recs, record_id)

\* ---------------------------------------------------------------- list_records
\* the loop over records.values() with its two "continue" tests
Matches(rec, user_id, category_id) ==
    /\ ~(user_id # None /\ rec.user_id # user_id)
    /\ ~(category_id # None /\ rec.category_id # category_id)

FilterRecords(recs, user_id, category_id) ==
    SelectSeq(Values(recs), LAMBDA rec : Matches(rec, user_id, category_id))

\* ---------------------------------------------------------------- users
\* GET /user/<int:user_id>
get_user(st, user_id) ==
    LET user == QueryGet(st.userTable, user_id) IN
    IF user = <<>>
    THEN Result(error_response("User not found", 404), st)
    ELSE Result(Response(200, "", <<user_to_dict(user[1])>>), st)

\* DELETE /user/<int:user_id>
delete_user(st, user_id) ==
    LET user == QueryGet(st.userTable, user_id)
        to_delete == UserRecordIds(st.records, user_id) IN
    IF user = <<>>
    THEN Result(error_response("User not found", 404), st)
    ELSE Result(Response(200, "", Deleted),
                [st EXCEPT !.userTable = DbDelete(st.userTable, user_id),
                           !.users = Pop(st.users, user_id),
                           !.records = DeleteAll(st.records, to_delete)])

\* POST /user
create_user(st, data) ==
    LET name == IF "name" \in data.keys THEN data.name ELSE ""
        user == [id |-> DbNewId(st.userSeq), name |-> name] IN
    IF name = ""
    THEN Result(error_response("Field 'name' is required", 400), st)
    ELSE Result(Response(201, "", <<user_to_dict(user)>>),
                [st EXCEPT !.userTable = Put(st.userTable, user.id, user),
                           !.userSeq = st.userSeq + 1,
                           !.users = Put(st.users, user.id,
                                         [id |-> user.id, name |-> user.name])])

\* GET /users
list_users(st) ==
    LET all_users == QueryAll(st.userTable) IN
    Result(Response(200, "", UsersToDicts(all_users)), st)

\* ---------------------------------------------------------------- categories
\* a list_categories that clears the dictionary and does not fill it again
list_categories_cleared(st) ==
    Result(Response(200, "", CategoriesToDicts(QueryAll(st.categoryTable))),
           [st EXCEPT !.categories = EmptyMap])

\* GET /category
list_categories(st) ==
    LET all_categories == QueryAll(st.categoryTable) IN
    Result(Response(200, "", CategoriesToDicts(all_categories)),
           [st EXCEPT !.categories =
               [id \in DOMAIN st.categoryTable |->
                   [id |-> st.categoryTable[id].id,
                    name |-> st.categoryTable[id].name]]])

\* POST /category
create_category(st, data) ==
    LET name == IF "name" \in data.keys THEN data.name ELSE ""
        category == [id |-> DbNewId(st.categorySeq), name |-> name] IN
    IF name = ""
    THEN Result(error_response("Field 'name' is required", 400), st)
    ELSE IF UniqueViolation(st.categoryTable, name)
    THEN Result(error_response("Category with this name already exists", 400), st)
    ELSE Result(Response(201, "", <<category_to_dict(category)>>),
                [st EXCEPT !.categoryTable = Put(st.categoryTable, category.id, category),
                           !.categorySeq = st.categorySeq + 1,
                           !.categories = Put(st.categories, category.id,
                                              [id |-> category.id,
                                               name |-> category.name])])

\* DELETE /category?id=
delete_category(st, q_id) ==
    LET category_id == ArgsGetInt(q_id)
        category == QueryGet(st.categoryTable, category_id)
        to_delete == CategoryRecordIds(st.records, category_id) IN
    IF category_id = None
    THEN Result(error_response("Query parameter 'id' is required", 400), st)
    ELSE IF category = <<>>
    THEN Result(error_response("Category not found", 404), st)
    ELSE Result(Response(200, "", Deleted),
                [st EXCEPT !.categoryTable = DbDelete(st.categoryTable, category_id),
                           !.categories = Pop(st.categories, category_id),
                           !.records = DeleteAll(st.records, to_delete)])

\* ---------------------------------------------------------------- records
\* GET /record/<int:record_id>
get_record(st, record_id) ==
    IF record_id \notin DOMAIN st.records
    THEN Result(error_response("Record not found", 404), st)
    ELSE Result(Response(200, "", <<st.records[record_id]>>), st)

\* DELETE /record/<int:record_id>
delete_record(st, record_id) ==
    IF record_id \notin DOMAIN st.records
    THEN Result(error_response("Record not found", 404), st)
    ELSE Result(Response(200, "", Deleted),
                [st EXCEPT !.records = DeleteOne(st.records, record_id)])

\* a create_record that looks at the amount before the references
create_record_amount_first(st, data) ==
    LET record == [id |-> st.next_record_id,
                   user_id |-> data.user_id,
                   category_id |-> data.category_id,
                   created_at |-> CreatedAt(data),
                   amount |-> Float(data.amount)[1]] IN
    IF MissingFields(data) # <<>>
    THEN Result(error_response("Missing fields", 400), st)
    ELSE IF Float(data.amount) = <<>>
    THEN Result(error_response("Field 'amount' must be a number", 400), st)
    ELSE IF UserUnknown(st.users, data.user_id)
    THEN Result(error_response("User does not exist", 400), st)
    ELSE IF CategoryUnknown(st.categories, data.category_id)
    THEN Result(error_response("Category does not exist", 400), st)
    ELSE Result(Response(201, "", <<record>>),
                [st EXCEPT !.records = Put(st.records, st.next_record_id, record),
                           !.next_record_id = IncrementRecordId(st.next_record_id)])

\* POST /record
create_record(st, data) ==
    LET record == [id |-> st.next_record_id,
                   user_id |-> data.user_id,
                   category_id |-> data.category_id,
                   created_at |-> CreatedAt(data),
                   amount |-> Float(data.amount)[1]] IN
    IF MissingFields(data) # <<>>
    THEN Result(error_response("Missing fields", 400), st)
    ELSE IF UserUnknown(st.users, data.user_id)
    THEN Result(error_response("User does not exist", 400), st)
    ELSE IF CategoryUnknown(st.categories, data.category_id)
    THEN Result(error_response("Category does not exist", 400), st)
    ELSE IF Float(data.amount) = <<>>
    THEN Result(error_response("Field 'amount' must be a number", 400), st)
    ELSE Result(Response(201, "", <<record>>),
                [st EXCEPT !.records = Put(st.records, st.next_record_id, record),
                           !.next_record_id = IncrementRecordId(st.next_record_id)])

\* GET /record?user_id=&category_id=
list_records(st, q_user_id, q_category_id) ==
    LET user_id == ArgsGetInt(q_user_id)
        category_id == ArgsGetInt(q_category_id) IN
    IF user_id = None /\ category_id = None
    THEN Result(error_response(
                    "At least one of 'user_id' or 'category_id' must be provided",
                    400), st)
    ELSE Result(Response(200, "", FilterRecords(st.records, user_id, category_id)),
                st)

\* ---------------------------------------------------------------- history
\* hist is no state of the program.  It keeps the ids the creates have
\* returned, the ids that were deleted, the records a cascade removed, the
\* {id, name} that create_user returned for each id, and whether a
\* create_record ran while a delete was under way.
Issue(field, id) == [hist EXCEPT ![field] = @ \cup {id}]
Gone(before, after) == (DOMAIN before) \ (DOMAIN after)
Removed(field, id, gone) ==
    [hist EXCEPT ![field] = @ \cup {id},
                 !.deleted_records = @ \cup gone,
                 !.cascaded = @ \cup gone]

\* ---------------------------------------------------------------- initial state
\* The module-level dictionaries start empty and next_record_id at 1, over a
\* freshly created database.
Workers == {"w1", "w2"}
Idle == [op |-> "idle", id |-> None, to_delete |-> <<>>]
NothingSeen == [user |-> None, category |-> None, orphan |-> FALSE]

Init ==
    /\ userTable = EmptyMap
    /\ categoryTable = EmptyMap
    /\ userSeq = 1
    /\ categorySeq = 1
    /\ users = EmptyMap
    /\ categories = EmptyMap
    /\ records = EmptyMap
    /\ next_record_id = 1
    /\ hist = [user_ids |-> {}, category_ids |-> {}, record_ids |-> {},
               deleted_users |-> {}, deleted_categories |-> {},
               deleted_records |-> {}, cascaded |-> {}, returned |-> EmptyMap,
               overlapped |-> FALSE]
    /\ pc = [w \in Workers |-> "idle"]
    /\ loc = [w \in Workers |-> Idle]
    /\ obs = NothingSeen

\* ---------------------------------------------------------------- actions
\* the store after a handler has run
SetStore(st) ==
    /\ userTable' = st.userTable
    /\ categoryTable' = st.categoryTable
    /\ userSeq' = st.userSeq
    /\ categorySeq' = st.categorySeq
    /\ users' = st.users
    /\ categories' = st.categories
    /\ records' = st.records
    /\ next_record_id' = st.next_record_id

Apply(r) == SetStore(r.store)

GetUser(user_id) ==
    /\ Apply(get_user(Store, user_id))
    /\ UNCHANGED <<hist, threads>>

DeleteUser(user_id) ==
    LET r == delete_user(Store, user_id) IN
    /\ Apply(r)
    /\ hist' = IF r.response.status = 200
               THEN Removed("deleted_users", user_id, Gone(records, r.store.records))
               ELSE hist
    /\ UNCHANGED threads

CreateUser(data) ==
    LET r == create_user(Store, data) IN
    /\ r.response.status = 201 => userSeq <= MaxId
    /\ Apply(r)
    /\ hist' = IF r.response.status = 201
               THEN [Issue("user_ids", r.response.body[1].id) EXCEPT
                        !.returned = Put(@, r.response.body[1].id, r.response.body[1])]
               ELSE hist
    /\ UNCHANGED threads

ListUsers ==
    /\ Apply(list_users(Store))
    /\ UNCHANGED <<hist, threads>>

ListCategories ==
    /\ Apply(list_categories(Store))
    /\ UNCHANGED <<hist, threads>>

CreateCategory(data) ==
    LET r == create_category(Store, data) IN
    /\ r.response.status = 201 => categorySeq <= MaxId
    /\ Apply(r)
    /\ hist' = IF r.response.status = 201
               THEN Issue("category_ids", r.response.body[1].id)
               ELSE hist
    /\ UNCHANGED threads

DeleteCategory(q_id) ==
    LET r == delete_category(Store, q_id) IN
    /\ Apply(r)
    /\ hist' = IF r.response.status = 200
               THEN Removed("deleted_categories", ArgsGetInt(q_id),
                            Gone(records, r.store.records))
               ELSE hist
    /\ UNCHANGED threads

GetRecord(record_id) ==
    /\ Apply(get_record(Store, record_id))
    /\ UNCHANGED <<hist, threads>>

DeleteRecord(record_id) ==
    LET r == delete_record(Store, record_id) IN
    /\ Apply(r)
    /\ hist' = IF r.response.status = 200
               THEN Issue("deleted_records", record_id)
               ELSE hist
    /\ UNCHANGED threads

CreateRecord(data) ==
    LET r == create_record(Store, data) IN
    /\ r.response.status = 201 => next_record_id <= MaxRecordId
    /\ Apply(r)
    /\ hist' = IF r.response.status = 201
               THEN [Issue("record_ids", r.response.body[1].id) EXCEPT
                        !.overlapped = @ \/ \E w \in Workers : pc[w] # "idle"]
               ELSE hist
    /\ UNCHANGED threads

ListRecords(q_user_id, q_category_id) ==
    /\ Apply(list_records(Store, q_user_id, q_category_id))
    /\ UNCHANGED <<hist, threads>>

\* ---------------------------------------------------------------- Spec
Next ==
    \/ \E data \in NameBodies(UserRequestNames) : CreateUser(data)
    \/ \E id \in IdInputs : GetUser(id)
    \/ \E id \in IdInputs : DeleteUser(id)
    \/ ListUsers
    \/ ListCategories
    \/ \E data \in NameBodies(CategoryNameInputs) : CreateCategory(data)
    \/ \E a \in ArgInputs : DeleteCategory(a)
    \/ \E id \in RecordIdInputs : GetRecord(id)
    \/ \E id \in RecordIdInputs : DeleteRecord(id)
    \/ \E data \in RecordBodies : CreateRecord(data)
    \/ \E a \in ArgInputs, b \in {Absent, Arg(IdText(1))} : ListRecords(a, b)

Spec == Init /\ [][Next]_vars

\* ---------------------------------------------------------------- SpecConc
\* delete_user and delete_category statement by statement on a worker thread
\* (the development server serves each request on its own thread); the other
\* handlers stay one step here (SpecRace takes create_record apart).
Busy(w, op, id) == pc[w] # "idle" /\ loc[w].op = op /\ loc[w].id = id
Deleting(op, id) == \E w \in Workers : Busy(w, op, id)

\* views.py 61-63: user = User.query.get(user_id); 404 if None
BeginDeleteUser(w, user_id) ==
    /\ pc[w] = "idle"
    /\ IF QueryGet(userTable, user_id) = <<>>
       THEN UNCHANGED <<pc, loc>>
       ELSE /\ pc' = [pc EXCEPT ![w] = "commit"]
            /\ loc' = [loc EXCEPT ![w] = [op |-> "delete_user", id |-> user_id,
                                          to_delete |-> <<>>]]
    /\ UNCHANGED store
    /\ UNCHANGED <<hist, obs>>

\* views.py 139-145: the id argument; 400 without it, 404 if no such row
BeginDeleteCategory(w, q_id) ==
    LET category_id == ArgsGetInt(q_id) IN
    /\ pc[w] = "idle"
    /\ IF category_id = None \/ QueryGet(categoryTable, category_id) = <<>>
       THEN UNCHANGED <<pc, loc>>
       ELSE /\ pc' = [pc EXCEPT ![w] = "commit"]
            /\ loc' = [loc EXCEPT ![w] = [op |-> "delete_category",
                                          id |-> category_id,
                                          to_delete |-> <<>>]]
    /\ UNCHANGED store
    /\ UNCHANGED <<hist, obs>>

\* views.py 65-66 and 147-148: db.session.delete(row); db.session.commit()
\* (a DELETE that matches no row, the row being gone already, is no error)
CommitDelete(w) ==
    /\ pc[w] = "commit"
    /\ SetStore(IF loc[w].op = "delete_user"
                THEN [Store EXCEPT !.userTable = DbDelete(userTable, loc[w].id)]
                ELSE [Store EXCEPT !.categoryTable =
                                       DbDelete(categoryTable, loc[w].id)])
    /\ hist' = IF loc[w].op = "delete_user"
               THEN Issue("deleted_users", loc[w].id)
               ELSE Issue("deleted_categories", loc[w].id)
    /\ pc' = [pc EXCEPT ![w] = "pop"]
    /\ UNCHANGED <<loc, obs>>

\* views.py 68 and 150: users.pop(user_id, None); categories.pop(category_id, None)
PopMirror(w) ==
    /\ pc[w] = "pop"
    /\ SetStore(IF loc[w].op = "delete_user"
                THEN [Store EXCEPT !.users = Pop(users, loc[w].id)]
                ELSE [Store EXCEPT !.categories = Pop(categories, loc[w].id)])
    /\ pc' = [pc EXCEPT ![w] = "scan"]
    /\ UNCHANGED <<hist, loc, obs>>

\* views.py 70 and 152: to_delete = [rid for rid, rec in records.items() if ...]
ScanRecords(w) ==
    /\ pc[w] = "scan"
    /\ loc' = [loc EXCEPT ![w].to_delete =
                  IF loc[w].op = "delete_user"
                  THEN UserRecordIds(records, loc[w].id)
                  ELSE CategoryRecordIds(records, loc[w].id)]
    /\ pc' = [pc EXCEPT ![w] = "del"]
    /\ UNCHANGED store
    /\ UNCHANGED <<hist, obs>>

\* views.py 71-72 and 153-154: del records[rid], once per step; a rid that
\* another request has removed meanwhile raises KeyError: the request ends 500
DeleteNext(w) ==
    LET rid == Head(loc[w].to_delete) IN
    /\ pc[w] = "del"
    /\ loc[w].to_delete # <<>>
    /\ IF rid \in DOMAIN records
       THEN /\ SetStore([Store EXCEPT !.records = DeleteOne(records, rid)])
            /\ hist' = [Issue("deleted_records", rid) EXCEPT !.cascaded = @ \cup {rid}]
            /\ loc' = [loc EXCEPT ![w].to_delete = Tail(@)]
            /\ UNCHANGED pc
       ELSE /\ UNCHANGED store
            /\ pc' = [pc EXCEPT ![w] = "idle"]
            /\ loc' = [loc EXCEPT ![w] = Idle]
            /\ UNCHANGED hist
    /\ UNCHANGED obs

\* views.py 74 and 156: return {"status": "deleted"}, 200
FinishDelete(w) ==
    /\ pc[w] = "del"
    /\ loc[w].to_delete = <<>>
    /\ pc' = [pc EXCEPT ![w] = "idle"]
    /\ loc' = [loc EXCEPT ![w] = Idle]
    /\ UNCHANGED store
    /\ UNCHANGED <<hist, obs>>

\* A client that reads while the deletes run: obs holds the parent it found
\* absent while a delete of that parent was running, and whether a response it
\* got afterwards held a record of that parent.
ShowsRecordOf(body, o) ==
    \E i \in 1..Len(body) :
        \/ o.user # None /\ body[i].user_id = o.user
        \/ o.category # None /\ body[i].category_id = o.category

\* GET /user/<id>
ObserveUser(user_id) ==
    LET r == get_user(Store, user_id) IN
    /\ Apply(r)
    /\ obs' = [user |-> IF r.response.status = 404 /\ Deleting("delete_user", user_id)
                        THEN user_id ELSE None,
               category |-> None,
               orphan |-> FALSE]
    /\ UNCHANGED <<hist, pc, loc>>

\* GET /category, looking for category_id in the list
ObserveCategories(category_id) ==
    LET r == list_categories(Store)
        body == r.response.body IN
    /\ Apply(r)
    /\ obs' = [user |-> None,
               category |-> IF /\ \A i \in 1..Len(body) : body[i].id # category_id
                               /\ Deleting("delete_category", category_id)
                            THEN category_id ELSE None,
               orphan |-> FALSE]
    /\ UNCHANGED <<hist, pc, loc>>

\* GET /record/<id>
ObserveRecord(record_id) ==
    LET r == get_record(Store, record_id) IN
    /\ Apply(r)
    /\ obs' = [obs EXCEPT !.orphan = ShowsRecordOf(r.response.body, obs)]
    /\ UNCHANGED <<hist, pc, loc>>

\* GET /record?user_id=&category_id=
ObserveRecords(q_user_id, q_category_id) ==
    LET r == list_records(Store, q_user_id, q_category_id) IN
    /\ Apply(r)
    /\ obs' = [obs EXCEPT !.orphan = ShowsRecordOf(r.response.body, obs)]
    /\ UNCHANGED <<hist, pc, loc>>

\* the requests that fill the store in SpecConc
ConcRecordBodies ==
    {[EmptyBody EXCEPT !.keys = {"user_id", "category_id", "amount"},
                       !.user_id = u, !.category_id = c, !.amount = "12.50"] :
        u \in 1..ConcMaxId, c \in 1..ConcMaxId}

ConcNext ==
    \/ \E w \in Workers, id \in 1..ConcMaxId : BeginDeleteUser(w, id)
    \/ \E w \in Workers, id \in 1..ConcMaxId :
          BeginDeleteCategory(w, Arg(IdText(id)))
    \/ \E w \in Workers : CommitDelete(w)
    \/ \E w \in Workers : PopMirror(w)
    \/ \E w \in Workers : ScanRecords(w)
    \/ \E w \in Workers : DeleteNext(w)
    \/ \E w \in Workers : FinishDelete(w)
    \/ userSeq <= ConcMaxId /\ CreateUser(NameBody("Al"))
    \/ categorySeq <= ConcMaxId /\ CreateCategory(NameBody("Food"))
    \/ \E data \in ConcRecordBodies : CreateRecord(data)
    \/ \E id \in 1..ConcMaxId : ObserveUser(id)
    \/ \E id \in 1..ConcMaxId : ObserveCategories(id)
    \/ \E id \in 1..MaxRecordId : ObserveRecord(id)
    \/ \E id \in 1..ConcMaxId : ObserveRecords(Arg(IdText(id)), Absent)
    \/ \E id \in 1..ConcMaxId : ObserveRecords(Absent, Arg(IdText(id)))

SpecConc == Init /\ [][ConcNext]_vars

\* ---------------------------------------------------------------- SpecRace
\* create_record on a worker thread too, in the steps at which another thread
\* can run in between, next to the deletes of SpecConc.  Every worker serves
\* one request and then holds its response (pc "done").

\* views.py 180-198: the body, the presence check, the two membership tests
\* and float(); a 400 ends the request
ValidateRecord(w, data) ==
    /\ pc[w] = "idle"
    /\ IF create_record(Store, data).response.status = 400
       THEN UNCHANGED <<pc, loc>>
       ELSE /\ pc' = [pc EXCEPT ![w] = "build"]
            /\ loc' = [loc EXCEPT ![w] = [op |-> "create_record", id |-> None,
                                          to_delete |-> <<>>, data |-> data,
                                          record |-> <<>>]]
    /\ UNCHANGED <<store, hist, obs>>

\* views.py 200-210: created_at and the record, its id read from next_record_id
BuildRecord(w) ==
    /\ pc[w] = "build"
    /\ loc' = [loc EXCEPT ![w].record =
                  <<[id |-> next_record_id,
                     user_id |-> loc[w].data.user_id,
                     category_id |-> loc[w].data.category_id,
                     created_at |-> CreatedAt(loc[w].data),
                     amount |-> Float(loc[w].data.amount)[1]]>>]
    /\ pc' = [pc EXCEPT ![w] = "store"]
    /\ UNCHANGED <<store, hist, obs>>

\* views.py 212: records[next_record_id] = record
StoreRecord(w) ==
    /\ pc[w] = "store"
    /\ SetStore([Store EXCEPT !.records =
                     Put(records, next_record_id, loc[w].record[1])])
    /\ pc' = [pc EXCEPT ![w] = "incr"]
    /\ UNCHANGED <<hist, loc, obs>>

\* views.py 213-215: next_record_id += 1; return jsonify(record), 201
ReturnRecord(w) ==
    /\ pc[w] = "incr"
    /\ next_record_id <= MaxRecordId
    /\ SetStore([Store EXCEPT !.next_record_id = IncrementRecordId(next_record_id)])
    /\ hist' = Issue("record_ids", loc[w].record[1].id)
    /\ pc' = [pc EXCEPT ![w] = "done"]
    /\ UNCHANGED <<loc, obs>>

\* views.py 74 and 156: return {"status": "deleted"}, 200
ReturnDeleted(w) ==
    /\ pc[w] = "del"
    /\ loc[w].to_delete = <<>>
    /\ pc' = [pc EXCEPT ![w] = "done"]
    /\ UNCHANGED <<store, hist, loc, obs>>

RaceNext ==
    \/ userSeq <= ConcMaxId /\ CreateUser(NameBody("Al"))
    \/ categorySeq <= ConcMaxId /\ CreateCategory(NameBody("Food"))
    \/ \E w \in Workers, data \in ConcRecordBodies : ValidateRecord(w, data)
    \/ \E w \in Workers : BuildRecord(w)
    \/ \E w \in Workers : StoreRecord(w)
    \/ \E w \in Workers : ReturnRecord(w)
    \/ \E w \in Workers, id \in 1..ConcMaxId : BeginDeleteUser(w, id)
    \/ \E w \in Workers, id \in 1..ConcMaxId :
          BeginDeleteCategory(w, Arg(IdText(id)))
    \/ \E w \in Workers : CommitDelete(w)
    \/ \E w \in Workers : PopMirror(w)
    \/ \E w \in Workers : ScanRecords(w)
    \/ \E w \in Workers : DeleteNext(w)
    \/ \E w \in Workers : ReturnDeleted(w)

SpecRace == Init /\ [][RaceNext]_vars

\* ---------------------------------------------------------------- properties
\* The formulas below speak of the handlers as operators: the result of a
\* request in a reachable state is the result of the handler on Store.  A
\* request that is rejected leaves the state as it is, so a state in which a
\* request would be rejected is also the state after that request.
Range(seq) == {seq[i] : i \in 1..Len(seq)}
IntArgs == {a \in ArgInputs : ArgsGetInt(a) # None}

\* the records of st that refer to user u / to category c
RecordsOfUser(st, u) == {rid \in DOMAIN st.records : st.records[rid].user_id = u}
RecordsOfCategory(st, c) == {rid \in DOMAIN st.records : st.records[rid].category_id = c}

CascadeUser(st, u) ==
    LET r == delete_user(st, u) IN
    r.response.status = 200 =>
        /\ RecordsOfUser(r.store, u) = {}
        /\ \A rid \in RecordsOfUser(st, u) :
               get_record(r.store, rid).response.status = 404
        /\ list_records(r.store, Arg(IdText(u)), Absent).response
               = Response(200, "", <<>>)

CascadeCategory(st, q) ==
    LET r == delete_category(st, q)
        c == ArgsGetInt(q) IN
    r.response.status = 200 =>
        /\ RecordsOfCategory(r.store, c) = {}
        /\ \A rid \in RecordsOfCategory(st, c) :
               get_record(r.store, rid).response.status = 404
        /\ list_records(r.store, Absent, q).response = Response(200, "", <<>>)

\* C1: in every reachable state, a delete_user(u) (delete_category(c)) that
\* returns 200 leaves no record with user_id = u (category_id = c): get_record
\* of every record that referred to the parent returns 404 and list_records
\* filtered by the deleted id returns the empty list.
C1_CascadeDelete ==
    /\ \A u \in IdInputs : CascadeUser(Store, u)
    /\ \A q \in ArgInputs : CascadeCategory(Store, q)

\* a user and a category have been deleted and the deletes took records along
C1_Witness ==
    /\ hist.deleted_users # {}
    /\ hist.deleted_categories # {}
    /\ Cardinality(hist.cascaded) >= 2

\* C2: in every state reachable by non-overlapping handler calls, the user_id
\* of every stored record is the id of a row of the users table and its
\* category_id is the id of a row of the categories table.
C2_ReferentialIntegrity ==
    \A rid \in DOMAIN records :
        /\ get_user(Store, records[rid].user_id).response.status = 200
        /\ records[rid].category_id
               \in {c.id : c \in Range(list_categories(Store).response.body)}

\* records are stored after a user, a category and a record have been deleted
C2_Witness ==
    /\ DOMAIN records # {}
    /\ hist.deleted_users # {}
    /\ hist.deleted_categories # {}
    /\ hist.deleted_records # {}

\* a body with the three required fields whose user_id or category_id is the
\* id of no row
DanglingReference(st, data) ==
    /\ MissingFields(data) = <<>>
    /\ \/ data.user_id \notin DOMAIN st.userTable
       \/ data.category_id \notin DOMAIN st.categoryTable

\* C3: create_record with a user_id or category_id that refers to no existing
\* row returns 400 with a reference error and leaves records and
\* next_record_id as they are; the ids returned so far are 1..next_record_id-1
\* and a successful create_record returns next_record_id, so failed attempts
\* leave no gap.
C3_RejectedReference ==
    /\ \A data \in RecordBodies :
           LET r == create_record(Store, data) IN
           /\ DanglingReference(Store, data) =>
                  /\ r.response.status = 400
                  /\ r.response.error \in {"User does not exist",
                                           "Category does not exist"}
                  /\ r.store = Store
           /\ r.response.status = 201 =>
                  /\ r.response.body[1].id = next_record_id
                  /\ r.store.next_record_id = next_record_id + 1
    /\ hist.record_ids = 1..(next_record_id - 1)

\* a record has been created, a user has been deleted, and a request names the
\* deleted user together with a category that exists
C3_Witness ==
    /\ hist.record_ids # {}
    /\ next_record_id <= MaxRecordId
    /\ \E data \in RecordBodies :
           /\ DanglingReference(Store, data)
           /\ data.user_id \in hist.deleted_users
           /\ data.category_id \in DOMAIN categories

\* C5: the id that a successful create_user, create_category or create_record
\* returns is none of the ids that creates of the same kind returned before,
\* the ids of deleted entities included.
C5_IdsNeverReused ==
    /\ \A data \in NameBodies(UserNameInputs) :
           LET r == create_user(Store, data) IN
           r.response.status = 201 => r.response.body[1].id \notin hist.user_ids
    /\ \A data \in NameBodies(CategoryNameInputs) :
           LET r == create_category(Store, data) IN
           r.response.status = 201 => r.response.body[1].id \notin hist.category_ids
    /\ \A data \in RecordBodies :
           LET r == create_record(Store, data) IN
           r.response.status = 201 => r.response.body[1].id \notin hist.record_ids

\* a user, a category and records (one of them by cascade) have been deleted,
\* and a create of each kind succeeds
C5_Witness ==
    /\ hist.deleted_users # {}
    /\ hist.deleted_categories # {}
    /\ hist.cascaded # {}
    /\ hist.deleted_records # hist.cascaded
    /\ \E data \in RecordBodies : create_record(Store, data).response.status = 201

UniqueNames(m) ==
    \A i \in DOMAIN m, j \in DOMAIN m : m[i].name = m[j].name => i = j

\* C6: category names are unique in the table and in the dictionary, and
\* create_category with the name of an existing category returns the 400
\* conflict error and leaves the table and the dictionary as they are.
C6_UniqueCategoryNames ==
    /\ UniqueNames(categoryTable)
    /\ UniqueNames(categories)
    /\ \A data \in NameBodies(CategoryNames) :
           LET r == create_category(Store, data) IN
           ("name" \in data.keys
               /\ \E id \in DOMAIN categoryTable : categoryTable[id].name = data.name) =>
               /\ r.response
                      = error_response("Category with this name already exists", 400)
               /\ r.store.categoryTable = categoryTable
               /\ r.store.categories = categories

\* a category is stored, the database would still give out an id, and a
\* request with the name of the stored category is rejected
C6_Witness ==
    /\ categorySeq <= MaxId
    /\ \E id \in DOMAIN categoryTable :
           create_category(Store, NameBody(categoryTable[id].name)).response.status = 400

\* the record has the value that the filter gives, when the filter is given
MatchesArg(value, a) == ~a.present \/ ArgsGetInt(a) = value

\* C7: list_records returns 400 when neither filter is given; when it returns
\* 200 its body is exactly the stored records that match every filter that
\* was given.
C7_ListRecordsExact ==
    \A a \in ArgInputs, b \in ArgInputs :
        LET r == list_records(Store, a, b).response IN
        /\ (~a.present /\ ~b.present) => r.status = 400
        /\ r.status = 200 =>
               r.body = SelectSeq(Values(records),
                                  LAMBDA rec : /\ MatchesArg(rec.user_id, a)
                                               /\ MatchesArg(rec.category_id, b))

\* deleting twice: the second delete finds nothing and changes nothing
TwiceUser(st, u) ==
    LET r1 == delete_user(st, u)
        r2 == delete_user(r1.store, u) IN
    /\ r1.response.status \in {200, 404}
    /\ r1.response.status = 404 => r1.store = st
    /\ r2.response.status = 404
    /\ r2.store = r1.store

TwiceCategory(st, q) ==
    LET r1 == delete_category(st, q)
        r2 == delete_category(r1.store, q) IN
    /\ r1.response.status \in {200, 404}
    /\ r1.response.status = 404 => r1.store = st
    /\ r2.response.status = 404
    /\ r2.store = r1.store

TwiceRecord(st, id) ==
    LET r1 == delete_record(st, id)
        r2 == delete_record(r1.store, id) IN
    /\ r1.response.status \in {200, 404}
    /\ r1.response.status = 404 => r1.store = st
    /\ r2.response.status = 404
    /\ r2.store = r1.store

\* C8: delete_user, delete_category and delete_record of an id that does not
\* exist return 404 and change nothing, so that a repetition returns 404
\* again; after a delete that returned 200 the same delete returns 404, and
\* so does the delete of every id that was deleted at any time before.
C8_DeleteStable ==
    /\ \A u \in IdInputs : TwiceUser(Store, u)
    /\ \A q \in IntArgs : TwiceCategory(Store, q)
    /\ \A id \in RecordIdInputs : TwiceRecord(Store, id)
    /\ \A u \in hist.deleted_users : delete_user(Store, u).response.status = 404
    /\ \A c \in hist.deleted_categories :
           delete_category(Store, Arg(IdText(c))).response.status = 404
    /\ \A id \in hist.deleted_records :
           delete_record(Store, id).response.status = 404

\* a user, a category and a record have been deleted by their own requests,
\* and a user, a category and a record are stored
C8_Witness ==
    /\ hist.deleted_users # {}
    /\ hist.deleted_categories # {}
    /\ hist.deleted_records # hist.cascaded
    /\ DOMAIN userTable # {}
    /\ DOMAIN categoryTable # {}
    /\ DOMAIN records # {}

\* the amounts that are numbers
NumericTexts == {"12.50", "7"}

\* C9: a request that ends in a validation error (create_user or
\* create_category without a name or with an empty one, create_record without
\* a required field or with an amount that is no number, delete_category
\* without id, list_records without a filter) returns 400 and leaves the
\* tables, the dictionaries and next_record_id as they were.
C9_NoPartialWrites ==
    /\ \A data \in NameBodies(UserNameInputs) :
           LET r == create_user(Store, data) IN
           ("name" \notin data.keys \/ data.name = "") =>
               r.response.status = 400 /\ r.store = Store
    /\ \A data \in NameBodies(CategoryNameInputs) :
           LET r == create_category(Store, data) IN
           ("name" \notin data.keys \/ data.name = "") =>
               r.response.status = 400 /\ r.store = Store
    /\ \A data \in RecordBodies :
           LET r == create_record(Store, data) IN
           (MissingFields(data) # <<>> \/ data.amount \notin NumericTexts) =>
               r.response.status = 400 /\ r.store = Store
    /\ \A q \in {a \in ArgInputs : ~a.present} :
           LET r == delete_category(Store, q) IN
           r.response.status = 400 /\ r.store = Store
    /\ \A a \in {x \in ArgInputs : ~x.present}, b \in {x \in ArgInputs : ~x.present} :
           LET r == list_records(Store, a, b) IN
           r.response.status = 400 /\ r.store = Store

\* records are stored, another could be, and a request for an existing user
\* and category carries an amount that is no number
C9_Witness ==
    /\ DOMAIN records # {}
    /\ next_record_id <= MaxRecordId
    /\ \E data \in RecordBodies :
           /\ MissingFields(data) = <<>>
           /\ data.user_id \in DOMAIN users
           /\ data.category_id \in DOMAIN categories
           /\ data.amount \notin NumericTexts
           /\ create_record(Store, data).response.error
                  = "Field 'amount' must be a number"

\* create_user then get_user: the same {id, name}, with the name of the request
RoundTrip ==
    \A data \in NameBodies(UserNameInputs) :
        LET r == create_user(Store, data) IN
        r.response.status = 201 =>
            /\ r.response.body[1].name = data.name
            /\ get_user(r.store, r.response.body[1].id).response
                   = Response(200, "", r.response.body)

\* every user a create_user has returned: get_user returns the same
\* {id, name} until its delete_user, 404 afterwards
CreatedUsers ==
    \A i \in hist.user_ids :
        get_user(Store, i).response
            = IF i \in hist.deleted_users
              THEN error_response("User not found", 404)
              ELSE Response(200, "", <<hist.returned[i]>>)

\* C10: after create_user returns {id: i, name: n}, with n the name of the
\* request, get_user(i) returns the same {id: i, name: n}, directly and in
\* every state reached without a delete of user i; once delete_user(i) has
\* returned 200, get_user(i) returns 404.
C10_UserRoundTrip == RoundTrip /\ CreatedUsers

\* one user has been deleted and another, created before that delete, is there
C10_Witness ==
    /\ hist.deleted_users # {}
    /\ \E i \in hist.user_ids \ hist.deleted_users :
           \E d \in hist.deleted_users : i < d

\* C4: a client that has found a parent absent while the delete of that parent
\* was running gets no record of that parent from get_record or list_records
\* afterwards (no create_record having run during a delete).
C4_NoPartialCascade == ~hist.overlapped => ~obs.orphan

\* the records of st without those in gone
Without(st, gone) == [rid \in (DOMAIN st.records) \ gone |-> st.records[rid]]

OnlyUserGone(st, u) ==
    LET r == delete_user(st, u) IN
    QueryGet(st.userTable, u) # <<>> =>
        /\ r.response = Response(200, "", Deleted)
        /\ r.store = [st EXCEPT !.userTable = Pop(st.userTable, u),
                                !.users = Pop(st.users, u),
                                !.records = Without(st, RecordsOfUser(st, u))]

OnlyCategoryGone(st, q) ==
    LET r == delete_category(st, q)
        c == ArgsGetInt(q) IN
    QueryGet(st.categoryTable, c) # <<>> =>
        /\ r.response = Response(200, "", Deleted)
        /\ r.store = [st EXCEPT !.categoryTable = Pop(st.categoryTable, c),
                                !.categories = Pop(st.categories, c),
                                !.records = Without(st, RecordsOfCategory(st, c))]

\* C11: delete_user(u) of an existing user returns 200 and removes the user
\* and exactly the records with user_id = u: the records of other users, the
\* other users, the categories and next_record_id stay as they are (the same
\* for delete_category(c)); with no dependent record the records are unchanged.
C11_CascadeOnlyDependents ==
    /\ \A u \in IdInputs : OnlyUserGone(Store, u)
    /\ \A q \in IntArgs : OnlyCategoryGone(Store, q)

\* a cascade has removed records, records are stored, and there is a user
\* without records to delete
C11_Witness ==
    /\ hist.cascaded # {}
    /\ DOMAIN records # {}
    /\ \E u \in DOMAIN userTable : RecordsOfUser(Store, u) = {}

\* every request has ended
Quiet == \A w \in Workers : pc[w] \in {"idle", "done"}

\* worker w has returned 200 from the delete op of id
ReturnedDeleted(w, op, id) == pc[w] = "done" /\ loc[w].op = op /\ loc[w].id = id

\* C12: when a create_record and a delete_user(u) (delete_category(c)) that
\* ran interleaved have both ended and the delete has returned 200, no record
\* with user_id = u (category_id = c) is stored.
C12_NoOrphanAfterRace ==
    Quiet =>
        \A w \in Workers :
            /\ \A u \in 1..ConcMaxId :
                   ReturnedDeleted(w, "delete_user", u) => RecordsOfUser(Store, u) = {}
            /\ \A c \in 1..ConcMaxId :
                   ReturnedDeleted(w, "delete_category", c) =>
                       RecordsOfCategory(Store, c) = {}

\* worker w has returned 201 from create_record
ReturnedRecord(w) == pc[w] = "done" /\ loc[w].op = "create_record"

\* C13: when two interleaved create_record requests have both returned 201,
\* their responses carry different ids, both records are stored under their
\* ids, and next_record_id has advanced by two.
C13_DistinctRecordIds ==
    \A v \in Workers, w \in Workers :
        (v # w /\ ReturnedRecord(v) /\ ReturnedRecord(w)) =>
            /\ loc[v].record[1].id # loc[w].record[1].id
            /\ get_record(Store, loc[v].record[1].id).response.body = loc[v].record
            /\ get_record(Store, loc[w].record[1].id).response.body = loc[w].record
            /\ next_record_id = 1 + 2

\* C14: create_record answers a body that lacks a required field with the
\* missing-fields error whatever its user_id is; a body with all fields and
\* an unknown user gets "User does not exist", one with a known user and an
\* unknown category gets "Category does not exist", whatever the amount is;
\* the amount error is given only when user and category both exist.
C14_ValidationOrder ==
    \A data \in RecordBodies :
        LET r == create_record(Store, data).response
            user_exists == data.user_id \in DOMAIN userTable
            category_exists == data.category_id \in DOMAIN categoryTable IN
        /\ MissingFields(data) # <<>> => r = error_response("Missing fields", 400)
        /\ (MissingFields(data) = <<>> /\ ~user_exists) =>
               r = error_response("User does not exist", 400)
        /\ (MissingFields(data) = <<>> /\ user_exists /\ ~category_exists) =>
               r = error_response("Category does not exist", 400)
        /\ r.error = "Field 'amount' must be a number" =>
               user_exists /\ category_exists

\* a user and a category exist: one request gets the amount error, another
\* with the same amount and an unknown user the reference error, and a
\* request without amount for an unknown user the missing-fields error
C14_Witness ==
    /\ \E data \in RecordBodies :
           create_record(Store, data).response.error = "Field 'amount' must be a number"
    /\ \E data \in RecordBodies :
           /\ MissingFields(data) = <<>>
           /\ data.amount \notin NumericTexts
           /\ data.user_id \notin DOMAIN userTable
           /\ data.category_id \in DOMAIN categoryTable
    /\ \E data \in RecordBodies :
           /\ MissingFields(data) # <<>>
           /\ "user_id" \in data.keys
           /\ data.user_id \notin DOMAIN userTable

\* the ids that GET /category lists
ListedCategoryIds(st) == {c.id : c \in Range(list_categories(st).response.body)}

\* C15: from an empty database and empty dictionaries, after non-overlapping
\* handler calls the keys of users are the ids of the users table and the
\* keys of categories are the ids of the categories table; create_record
\* with all fields and a numeric amount succeeds exactly when get_user finds
\* the user and list_categories lists the category.
C15_MirrorsAgree ==
    /\ DOMAIN users = DOMAIN userTable
    /\ DOMAIN categories = DOMAIN categoryTable
    /\ \A data \in RecordBodies :
           LET r == create_record(Store, data).response
               user_found == get_user(Store, data.user_id).response.status = 200
               category_listed == data.category_id \in ListedCategoryIds(Store) IN
           (MissingFields(data) = <<>> /\ data.amount \in NumericTexts) =>
               /\ r.status = 201 <=> (user_found /\ category_listed)
               /\ r.error = "User does not exist" <=> ~user_found
               /\ r.error = "Category does not exist" <=>
                      (user_found /\ ~category_listed)

\* users and categories have been created and deleted: a request is
\* accepted, and a request that names a deleted user is rejected
C15_Witness ==
    /\ hist.deleted_users # {}
    /\ hist.deleted_categories # {}
    /\ \E data \in RecordBodies : create_record(Store, data).response.status = 201
    /\ \E data \in RecordBodies :
           /\ MissingFields(data) = <<>>
           /\ data.user_id \in hist.deleted_users
           /\ create_record(Store, data).response.error = "User does not exist"

====
